---- MODULE Spec2Model ----
(***************************************************************************)
(* Model of the useChat hook of                                            *)
(* CopilotKit/packages/runtime/src/service-adapters/unify/unify-adapter.ts *)
(*                                                                         *)
(* The hook keeps three React state cells (messages, input, isLoading).    *)
(* Its helpers (append, reload, stop) are closures created by a render:    *)
(* they read the values of `messages` and `isLoading` of THAT render, and  *)
(* write through setMessages / setIsLoading.  The model therefore keeps    *)
(* both the state cells (the last value set) and `rendered`, the values    *)
(* the helpers of the latest render close over.                            *)
(*                                                                         *)
(* The same file holds UnifyAdapter.process; `adapter` is one call of it,  *)
(* checked under AdapterSpec and idle under Spec.                          *)
(*                                                                         *)
(* Text is a sequence of one-character strings, so that += is \o.          *)
(* Message.createdAt (new Date()) is never read and is left out.           *)
(***************************************************************************)
EXTENDS Integers, Sequences, FiniteSets, TLC

\* ---------------------------------------------------------------- bounds
\* turns started plus client events emitted in one behaviour
MaxWork == 4

\* ------------------------------------------------------------ data model
Undefined == [name |-> "undefined", arguments |-> "undefined"]
NoError == "none"

Message(id, role, content, fc) ==
  [id |-> id, role |-> role, content |-> content, function_call |-> fc]

NoMessage == Message(0, "none", <<>>, Undefined)

\* messages a caller passes to append
AppendMessages == { Message(101, "user", <<"h", "i">>, Undefined) }

\* text fragments, function calls and errors the streaming client delivers
Deltas == { <<"H", "e">>, <<"l", "l", "o">> }
FunctionCalls == { [name |-> "search", arguments |-> "{}"] }
Errors == { "NetworkError" }
Inputs == { "draft" }

SystemMessage(id) == Message(id, "system", <<"s">>, Undefined)

\* UseChatOptions: systemMessages (absent: []), onFunctionCall (configured or
\* not), functions, headers
OptionsSet ==
  { [ systemMessages |-> <<>>, onFunctionCall |-> FALSE,
      functions |-> <<"search">>, headers |-> "h" ],
    [ systemMessages |-> <<SystemMessage(201), SystemMessage(202)>>,
      onFunctionCall |-> TRUE,
      functions |-> <<"search">>, headers |-> "h" ] }

Event(type, content, fc, error) ==
  [type |-> type, content |-> content, function_call |-> fc, error |-> error]

VARIABLES
  messages,   \* useState<Message[]>([])  : last value given to setMessages
  input,      \* useState("")
  isLoading,  \* useState(false)
  rendered,   \* messages and isLoading of the latest render, closed over by its helpers
  options,    \* the UseChatOptions of the hook
  turns,      \* one record per runChatCompletion call (its closure)
  last,       \* the helper call (append, reload, stop) made by the last step, and its outcome
  adapter     \* one call of UnifyAdapter.process: its position, provider stream and event stream

vars == <<messages, input, isLoading, rendered, options, turns, last, adapter>>

\* `last` when the last step was not a call of append, reload or stop
NoCall == [op |-> "none", result |-> "none"]

Last(s) == s[Len(s)]
Front(s) == SubSeq(s, 1, Len(s) - 1)

Turns == 1..Len(turns)

\* number of events the clients of turns 1..n have emitted
RECURSIVE EventsEmitted(_)
EventsEmitted(n) ==
  IF n = 0 THEN 0 ELSE Len(turns[n].emitted) + EventsEmitted(n - 1)

\* turns started plus client events emitted so far: what MaxWork bounds
Work == Len(turns) + EventsEmitted(Len(turns))

\* the promise of runChatCompletion is not settled yet
InFlight(t) == turns[t].inner = "pending"

\* no call of UnifyAdapter.process is under way
AdapterIdle ==
  [pc |-> "idle", stream |-> <<>>, next |-> 1, outcome |-> "ok", events |-> <<>>]

\* useChat(options) after its first render
HookInit ==
  /\ messages = <<>>
  /\ input = ""
  /\ isLoading = FALSE
  /\ rendered = [messages |-> <<>>, isLoading |-> FALSE]
  /\ options \in OptionsSet
  /\ turns = <<>>
  /\ last = NoCall

Init ==
  /\ HookInit
  /\ adapter = AdapterIdle

\* React re-renders the component after a state change: the helpers of the
\* new render close over the current state.
Render ==
  /\ rendered # [messages |-> messages, isLoading |-> isLoading]
  /\ rendered' = [messages |-> messages, isLoading |-> isLoading]
  /\ last' = NoCall
  /\ UNCHANGED <<messages, input, isLoading, options, turns, adapter>>

\* ---------------------------------------------------- runChatCompletion
\* the fresh assistant message of a turn; nanoid() is a fresh identifier
NewAssistantMessage == Message(Len(turns) + 1, "assistant", <<>>, Undefined)

\* the request context with the system messages put last
messagesWithContext_systemLast(closure) == closure \o options.systemMessages

\* [...(options.systemMessages || []), ...messages]
messagesWithContext(closure) == options.systemMessages \o closure

\* The synchronous body of the promise executor of runChatCompletion, run
\* from a helper whose closure holds `closure` as messages.
\* Returns the turn record (the executor's closure and its client).
NewTurn(op, arg, closure) ==
  [ op |-> op,
    arg |-> arg,
    messages |-> closure,
    assistantMessage |-> NewAssistantMessage,
    listeners |-> {"content", "end", "error", "function"},
    request |-> [ messages |-> messagesWithContext(closure),
                  functions |-> options.functions,
                  headers |-> options.headers ],
    emitted |-> <<>>,
    closed |-> FALSE,
    inner |-> "pending",
    value |-> NoMessage,
    reason |-> NoError,
    outer |-> "pending",
    outerReason |-> NoError,
    handlerCalls |-> <<>> ]

\* setState calls made by the executor, in order: setMessages arguments
runChatCompletionSetMessages(closure) ==
  << closure \o <<NewAssistantMessage>> >>

\* a helper that starts a turn: `before` are the setMessages calls the helper
\* made before calling runChatCompletionAndHandleFunctionCall
runChatCompletion(op, arg, closure, before) ==
  /\ Work < MaxWork
  /\ isLoading' = TRUE
  /\ messages' = Last(before \o runChatCompletionSetMessages(closure))
  /\ turns' = Append(turns, NewTurn(op, arg, closure))
  /\ last' = [op |-> op, result |-> "pending"]
  /\ UNCHANGED <<input, rendered, options, adapter>>

\* a helper that returns at its guard: the async function resolves
NoOp(op) ==
  /\ last' = [op |-> op, result |-> "resolved"]
  /\ UNCHANGED <<messages, input, isLoading, rendered, options, turns, adapter>>

\* --------------------------------------------------------------- helpers
\* append without its isLoading guard
append_noGuard(message) ==
  runChatCompletion("append", message, rendered.messages,
                    << rendered.messages \o <<message>> >>)

\* append that also clears the input field
append_clearsInput(message) ==
  IF rendered.isLoading
    THEN NoOp("append")
    ELSE /\ Work < MaxWork
         /\ isLoading' = TRUE
         /\ messages' = rendered.messages \o <<NewAssistantMessage>>
         /\ turns' = Append(turns, NewTurn("append", message, rendered.messages))
         /\ last' = [op |-> "append", result |-> "pending"]
         /\ input' = ""
         /\ UNCHANGED <<rendered, options, adapter>>

append(message) ==
  IF rendered.isLoading
    THEN NoOp("append")
    ELSE runChatCompletion("append", message, rendered.messages,
                           << rendered.messages \o <<message>> >>)

\* reload whose guard looks at the history only
reload_ignoresLoading ==
  IF Len(rendered.messages) = 0
    THEN NoOp("reload")
    ELSE LET lastMessage == Last(rendered.messages) IN
         runChatCompletion("reload", NoMessage, rendered.messages,
                           IF lastMessage.role = "assistant"
                             THEN << Front(rendered.messages) >>
                             ELSE << >>)

reload ==
  IF rendered.isLoading \/ Len(rendered.messages) = 0
    THEN NoOp("reload")
    ELSE LET lastMessage == Last(rendered.messages) IN
         runChatCompletion("reload", NoMessage, rendered.messages,
                           IF lastMessage.role = "assistant"
                             THEN << Front(rendered.messages) >>
                             ELSE << >>)

\* stop that cancels: it detaches every listener, clears isLoading and returns
stop_aborts ==
  /\ last' = [op |-> "stop", result |-> "returned"]
  /\ isLoading' = FALSE
  /\ turns' = [t \in Turns |-> [turns[t] EXCEPT !.listeners = {}]]
  /\ UNCHANGED <<messages, input, rendered, options, adapter>>

stop ==
  /\ last' = [op |-> "stop", result |-> "threw"]
  /\ UNCHANGED <<messages, input, isLoading, rendered, options, turns, adapter>>

setInput(s) ==
  /\ input' = s
  /\ last' = NoCall
  /\ UNCHANGED <<messages, isLoading, rendered, options, turns, adapter>>

\* ------------------------------------------------------ streaming client
\* ChatCompletionClient: an event emitter over one HTTP stream.
\* client.off(event): the hook's listener for that event class is removed.
ClientOff(listeners, event) == listeners \ {event}

\* the client emits event e of turn t: e joins the turn's emission log, and a
\* terminal event closes the stream (no events after it)
Emitted(t, e) ==
  [turns[t] EXCEPT !.emitted = Append(@, e),
                   !.closed = e.type \in {"end", "error"}]

\* the client of turn t can still emit: its stream has not terminated
CanEmit(t) ==
  /\ t \in Turns
  /\ ~turns[t].closed
  /\ Work < MaxWork

\* an event with no listener attached changes nothing but the client's log
Dropped(t, tr) ==
  /\ turns' = [turns EXCEPT ![t] = tr]
  /\ UNCHANGED <<messages, isLoading>>

\* ------------------------------------------- the executor's four listeners
\* cleanup that leaves the content listener attached
cleanup_keepsContent(tr) ==
  [tr EXCEPT !.listeners =
     ClientOff(ClientOff(ClientOff(@, "end"), "error"), "function")]

cleanup(tr) ==
  [tr EXCEPT !.listeners =
     ClientOff(ClientOff(ClientOff(ClientOff(@, "content"), "end"), "error"),
               "function")]

\* resolve / reject of the executor's promise: a settled promise stays as it is
resolve(tr, message) ==
  IF tr.inner = "pending"
    THEN [tr EXCEPT !.inner = "resolved", !.value = message]
    ELSE tr

reject(tr, error) ==
  IF tr.inner = "pending"
    THEN [tr EXCEPT !.inner = "rejected", !.reason = error]
    ELSE tr

\* content listener that overwrites the content with the delta
onContent_replaces(t, tr, content) ==
  LET am == [tr.assistantMessage EXCEPT !.content = content] IN
  /\ turns' = [turns EXCEPT ![t] = [tr EXCEPT !.assistantMessage = am]]
  /\ messages' = tr.messages \o <<am>>
  /\ UNCHANGED isLoading

onContent(t, tr, content) ==
  LET am == [tr.assistantMessage EXCEPT !.content = @ \o content] IN
  /\ turns' = [turns EXCEPT ![t] = [tr EXCEPT !.assistantMessage = am]]
  /\ messages' = tr.messages \o <<am>>
  /\ UNCHANGED isLoading

\* end listener that forgets to resolve
onEnd_noResolve(t, tr) ==
  /\ isLoading' = FALSE
  /\ turns' = [turns EXCEPT ![t] = cleanup(tr)]
  /\ UNCHANGED messages

onEnd(t, tr) ==
  /\ isLoading' = FALSE
  /\ turns' = [turns EXCEPT ![t] = resolve(cleanup(tr), tr.assistantMessage)]
  /\ UNCHANGED messages

\* error listener that forgets setIsLoading(false)
onError_keepsLoading(t, tr, error) ==
  /\ turns' = [turns EXCEPT ![t] = reject(cleanup(tr), error)]
  /\ UNCHANGED <<messages, isLoading>>

onError(t, tr, error) ==
  /\ isLoading' = FALSE
  /\ turns' = [turns EXCEPT ![t] = reject(cleanup(tr), error)]
  /\ UNCHANGED messages

\* function listener that resolves without cleanup
onFunction_noCleanup(t, tr, functionCall) ==
  LET am == [tr.assistantMessage EXCEPT !.function_call = functionCall] IN
  /\ messages' = tr.messages \o <<am>>
  /\ isLoading' = FALSE
  /\ turns' = [turns EXCEPT ![t] =
                 resolve([tr EXCEPT !.assistantMessage = am], am)]

onFunction(t, tr, functionCall) ==
  LET am == [tr.assistantMessage EXCEPT !.function_call = functionCall] IN
  /\ messages' = tr.messages \o <<am>>
  /\ isLoading' = FALSE
  /\ turns' = [turns EXCEPT ![t] =
                 resolve(cleanup([tr EXCEPT !.assistantMessage = am]), am)]

\* ------------------------------------------------- client event deliveries
ClientContent(t, content) ==
  /\ CanEmit(t)
  /\ LET tr == Emitted(t, Event("content", content, Undefined, NoError)) IN
     IF "content" \in tr.listeners
       THEN onContent(t, tr, content)
       ELSE Dropped(t, tr)
  /\ last' = NoCall
  /\ UNCHANGED <<input, rendered, options, adapter>>

ClientFunction(t, functionCall) ==
  /\ CanEmit(t)
  /\ LET tr == Emitted(t, Event("function", <<>>, functionCall, NoError)) IN
     IF "function" \in tr.listeners
       THEN onFunction(t, tr, functionCall)
       ELSE Dropped(t, tr)
  /\ last' = NoCall
  /\ UNCHANGED <<input, rendered, options, adapter>>

ClientEnd(t) ==
  /\ CanEmit(t)
  /\ LET tr == Emitted(t, Event("end", <<>>, Undefined, NoError)) IN
     IF "end" \in tr.listeners
       THEN onEnd(t, tr)
       ELSE Dropped(t, tr)
  /\ last' = NoCall
  /\ UNCHANGED <<input, rendered, options, adapter>>

ClientError(t, error) ==
  /\ CanEmit(t)
  /\ LET tr == Emitted(t, Event("error", <<>>, Undefined, error)) IN
     IF "error" \in tr.listeners
       THEN onError(t, tr, error)
       ELSE Dropped(t, tr)
  /\ last' = NoCall
  /\ UNCHANGED <<input, rendered, options, adapter>>

\* ------------------------------ runChatCompletionAndHandleFunctionCall
\* The continuation after `await runChatCompletion()` of turn t.  A rejection
\* is rethrown; a message with a function call goes to options.onFunctionCall
\* (when configured) with the closure's messages; handlerOk says whether the
\* caller's handler returns or throws.
HandlerError == "HandlerError"

\* the continuation handing onFunctionCall the published list (the closure's
\* messages plus the assistant message) instead of the closure's messages
runChatCompletionAndHandleFunctionCall_passesPublished(t, handlerOk) ==
  /\ t \in Turns
  /\ turns[t].inner # "pending"
  /\ turns[t].outer = "pending"
  /\ LET tr == turns[t] IN
     turns' = [turns EXCEPT ![t] =
       IF tr.inner = "rejected"
         THEN [tr EXCEPT !.outer = "rejected", !.outerReason = tr.reason]
       ELSE IF tr.value.function_call # Undefined /\ options.onFunctionCall
         THEN [tr EXCEPT
                 !.handlerCalls = Append(@, [messages |-> tr.messages \o <<tr.value>>,
                                             function_call |-> tr.value.function_call]),
                 !.outer = IF handlerOk THEN "resolved" ELSE "rejected",
                 !.outerReason = IF handlerOk THEN NoError ELSE HandlerError]
       ELSE [tr EXCEPT !.outer = "resolved"]]
  /\ last' = NoCall
  /\ UNCHANGED <<messages, input, isLoading, rendered, options, adapter>>

runChatCompletionAndHandleFunctionCall(t, handlerOk) ==
  /\ t \in Turns
  /\ turns[t].inner # "pending"
  /\ turns[t].outer = "pending"
  /\ LET tr == turns[t] IN
     turns' = [turns EXCEPT ![t] =
       IF tr.inner = "rejected"
         THEN [tr EXCEPT !.outer = "rejected", !.outerReason = tr.reason]
       ELSE IF tr.value.function_call # Undefined /\ options.onFunctionCall
         THEN [tr EXCEPT
                 !.handlerCalls = Append(@, [messages |-> tr.messages,
                                             function_call |-> tr.value.function_call]),
                 !.outer = IF handlerOk THEN "resolved" ELSE "rejected",
                 !.outerReason = IF handlerOk THEN NoError ELSE HandlerError]
       ELSE [tr EXCEPT !.outer = "resolved"]]
  /\ last' = NoCall
  /\ UNCHANGED <<messages, input, isLoading, rendered, options, adapter>>

Next ==
  \/ Render
  \/ \E m \in AppendMessages : append(m)
  \/ reload
  \/ stop
  \/ \E s \in Inputs : setInput(s)
  \/ \E t \in Turns, d \in Deltas : ClientContent(t, d)
  \/ \E t \in Turns, f \in FunctionCalls : ClientFunction(t, f)
  \/ \E t \in Turns : ClientEnd(t)
  \/ \E t \in Turns, e \in Errors : ClientError(t, e)
  \/ \E t \in Turns, ok \in BOOLEAN : runChatCompletionAndHandleFunctionCall(t, ok)

Spec == Init /\ [][Next]_vars

\* The continuation of an await is a microtask: once the promise of
\* runChatCompletion has settled it runs.
Continue(t) == \E ok \in BOOLEAN : runChatCompletionAndHandleFunctionCall(t, ok)

LiveSpec == Spec /\ WF_vars(\E t \in Turns : Continue(t))

\* ------------------------------------------------- UnifyAdapter.process
\* chunks of the provider stream: chunk.choices[0].delta.content is a string
\* (possibly empty) or is missing
MaxChunks == 3

Chunk(defined, text) == [defined |-> defined, text |-> text]

ChunkValues ==
  { Chunk(TRUE, <<"H", "i">>), Chunk(TRUE, <<"!">>), Chunk(TRUE, <<>>),
    Chunk(FALSE, <<>>) }

RECURSIVE SeqsUpTo(_, _)
SeqsUpTo(S, n) ==
  IF n = 0 THEN { <<>> }
  ELSE LET shorter == SeqsUpTo(S, n - 1) IN
       shorter \cup { Append(q, x) : q \in shorter, x \in S }

\* if (content): undefined, null and "" are falsy
Truthy_definedOnly(chunk) == chunk.defined

Truthy(chunk) == chunk.defined /\ chunk.text # <<>>

\* an event sent on eventStream$
StreamEvent(type, text) == [type |-> type, text |-> text]

\* process(request) is called: the provider stream it will read is `stream`;
\* outcome says whether create() rejects, the stream throws after its
\* chunks, or the stream completes
AdapterInit ==
  /\ HookInit
  /\ adapter \in [ pc : {"create"},
                    stream : SeqsUpTo(ChunkValues, MaxChunks),
                    next : {1},
                    outcome : {"ok", "createFails", "streamFails"},
                    events : { <<>> } ]

HookUnchanged ==
  UNCHANGED <<messages, input, isLoading, rendered, options, turns, last>>

\* await openai.chat.completions.create(...)
adapterCreate ==
  /\ adapter.pc = "create"
  /\ adapter' = [adapter EXCEPT
                   !.pc = IF adapter.outcome = "createFails" THEN "failed" ELSE "start"]
  /\ HookUnchanged

\* eventStream$.sendTextMessageStart(randomId())
adapterStart ==
  /\ adapter.pc = "start"
  /\ adapter' = [adapter EXCEPT
                   !.pc = "loop",
                   !.events = Append(@, StreamEvent("TextMessageStart", <<>>))]
  /\ HookUnchanged

\* one iteration of `for await (const chunk of _stream)`
adapterChunk ==
  /\ adapter.pc = "loop"
  /\ adapter.next <= Len(adapter.stream)
  /\ LET content == adapter.stream[adapter.next] IN
     adapter' = [adapter EXCEPT
                   !.next = @ + 1,
                   !.events = IF Truthy(content)
                                THEN Append(@, StreamEvent("TextMessageContent", content.text))
                                ELSE @]
  /\ HookUnchanged

\* the provider stream throws: the callback rejects
adapterStreamFails ==
  /\ adapter.pc = "loop"
  /\ adapter.next > Len(adapter.stream)
  /\ adapter.outcome = "streamFails"
  /\ adapter' = [adapter EXCEPT !.pc = "failed"]
  /\ HookUnchanged

\* the provider stream is exhausted: sendTextMessageEnd(); complete()
adapterEnd ==
  /\ adapter.pc = "loop"
  /\ adapter.next > Len(adapter.stream)
  /\ adapter.outcome = "ok"
  /\ adapter' = [adapter EXCEPT
                   !.pc = "done",
                   !.events = @ \o << StreamEvent("TextMessageEnd", <<>>),
                                     StreamEvent("complete", <<>>) >>]
  /\ HookUnchanged

AdapterNext ==
  \/ adapterCreate
  \/ adapterStart
  \/ adapterChunk
  \/ adapterStreamFails
  \/ adapterEnd

AdapterSpec == AdapterInit /\ [][AdapterNext]_vars

\* =================================================================== claims
\* turn t is the latest turn and no earlier turn can still publish
Alone(t) ==
  /\ t = Len(turns)
  /\ \A u \in Turns : u # t => turns[u].listeners = {}

OnlyContent(log) == \A i \in 1..Len(log) : log[i].type = "content"

\* the fragments of a log of content events, joined in emission order
RECURSIVE ConcatContent(_)
ConcatContent(log) ==
  IF log = <<>> THEN <<>> ELSE log[1].content \o ConcatContent(Tail(log))

\* in this step the client of turn t emitted event e
Emits(t, e) == turns'[t].emitted = Append(turns[t].emitted, e)

\* in this step a helper `op` was called
Called(op) == last'.op = op

\* C1: after append(m) on history H, during the whole turn the message list
\* is H, then m, then the pending assistant message.
C1_AppendedMessageStays ==
  \A t \in Turns :
    (turns[t].op = "append" /\ Alone(t)) =>
      messages = turns[t].messages \o <<turns[t].arg>>
                   \o <<turns[t].assistantMessage>>

\* C2: the request of a turn started by append(m) on history H carries the
\* system messages, then H, then m.
C2_RequestHasAppendedMessage ==
  \A t \in Turns :
    turns[t].op = "append" =>
      turns[t].request.messages =
        options.systemMessages \o turns[t].messages \o <<turns[t].arg>>

\* C3: at most one completion turn is in flight at any time.
C3_AtMostOneTurnInFlight ==
  Cardinality({t \in Turns : InFlight(t)}) <= 1

\* C4: reload on a history ending with an assistant message drops that
\* message: it is not in the request, and the message list is the history
\* without it followed by the one new assistant message.
C4_ReloadDropsOldAnswer ==
  \A t \in Turns :
    (turns[t].op = "reload" /\ Last(turns[t].messages).role = "assistant") =>
      /\ \A i \in 1..Len(turns[t].request.messages) :
           turns[t].request.messages[i] # Last(turns[t].messages)
      /\ Alone(t) =>
           messages = Front(turns[t].messages) \o <<turns[t].assistantMessage>>

\* C5: when a turn that received only content events d1..dn receives end, it
\* resolves with an assistant message whose content is d1 \o ... \o dn, that
\* message is the last element of messages, and isLoading is false.
C5_ContentThenEnd ==
  [][\A t \in Turns :
       ( /\ InFlight(t)
         /\ OnlyContent(turns[t].emitted)
         /\ Emits(t, Event("end", <<>>, Undefined, NoError)) ) =>
       ( /\ turns'[t].inner = "resolved"
         /\ turns'[t].value.content = ConcatContent(turns[t].emitted)
         /\ Last(messages') = turns'[t].value
         /\ isLoading' = FALSE )]_vars

\* C6: a function event on a turn in flight resolves the turn at once with
\* the call attached to the pending assistant message and isLoading false,
\* and a later content event of that turn leaves messages unchanged.
C6_FunctionResolvesTurn ==
  [][\A t \in Turns :
       /\ \A f \in FunctionCalls :
            (InFlight(t) /\ Emits(t, Event("function", <<>>, f, NoError))) =>
              /\ turns'[t].inner = "resolved"
              /\ turns'[t].value.function_call = f
              /\ turns'[t].assistantMessage.function_call = f
              /\ Last(messages') = turns'[t].value
              /\ isLoading' = FALSE
       /\ \A d \in Deltas :
            ( /\ \E i \in 1..Len(turns[t].emitted) :
                   turns[t].emitted[i].type = "function"
              /\ Emits(t, Event("content", d, Undefined, NoError)) ) =>
              /\ messages' = messages
              /\ turns'[t].value = turns[t].value ]_vars

C6_Witness ==
  \E t \in Turns :
    /\ turns[t].inner = "resolved"
    /\ \E i, j \in 1..Len(turns[t].emitted) :
         /\ i < j
         /\ turns[t].emitted[i].type = "function"
         /\ turns[t].emitted[j].type = "content"

\* C7: append called from a render whose isLoading is true changes nothing:
\* messages, isLoading and the turns (clients, requests) stay as they are and
\* the returned promise resolves.
C7_AppendWhileLoadingIsNoOp ==
  [][(Called("append") /\ rendered.isLoading) =>
       /\ messages' = messages
       /\ isLoading' = isLoading
       /\ turns' = turns
       /\ last'.result = "resolved"]_vars

C7_Witness ==
  /\ last = [op |-> "append", result |-> "resolved"]
  /\ rendered.isLoading
  /\ \E t \in Turns : InFlight(t)

\* C8: reload called from a render whose isLoading is true or whose message
\* list is empty changes nothing and its promise resolves; with an empty
\* history isLoading stays false.
C8_ReloadNoOp ==
  [][(Called("reload") /\ (rendered.isLoading \/ rendered.messages = <<>>)) =>
       /\ messages' = messages
       /\ isLoading' = isLoading
       /\ turns' = turns
       /\ last'.result = "resolved"
       /\ messages = <<>> => isLoading' = FALSE]_vars

C8_Witness ==
  /\ last = [op |-> "reload", result |-> "resolved"]
  /\ messages = <<>>
  /\ ~isLoading

\* C9: isLoading is true exactly while a completion turn is in flight.
C9_LoadingIffInFlight ==
  isLoading <=> \E t \in Turns : InFlight(t)

\* C10: an error event on a turn in flight rejects the turn with that error
\* and sets isLoading to false; the promise of the append or reload that
\* started the turn is then rejected with the same error and onFunctionCall
\* is never invoked for the turn.
C10_ErrorRejects ==
  /\ [](\A t \in Turns :
          turns[t].inner = "rejected" =>
            /\ turns[t].handlerCalls = <<>>
            /\ turns[t].outer # "resolved"
            /\ turns[t].reason = Last(turns[t].emitted).error
            /\ turns[t].outer = "rejected" =>
                 turns[t].outerReason = turns[t].reason)
  /\ [][\A t \in Turns :
          /\ \A e \in Errors :
               (InFlight(t) /\ Emits(t, Event("error", <<>>, Undefined, e))) =>
                 /\ turns'[t].inner = "rejected"
                 /\ turns'[t].reason = e
                 /\ isLoading' = FALSE
          /\ (turns[t].inner = "rejected" /\ turns'[t] # turns[t]) =>
               /\ turns'[t].outer = "rejected"
               /\ turns'[t].outerReason = turns[t].reason]_vars

C10_Witness ==
  \E t \in Turns :
    /\ turns[t].inner = "rejected"
    /\ turns[t].outer = "rejected"
    /\ turns[t].outerReason \in Errors

\* C11: onFunctionCall is invoked only by the continuation of a turn that
\* resolved with a function call, only when a handler is configured, at most
\* once per turn, exactly once when that continuation has run, and with the
\* message history the turn was started on (no pending assistant message) and
\* the function call the turn resolved with.
C11_HandlerInvokedOnce ==
  /\ [](\A t \in Turns :
          LET tr == turns[t]
              due == /\ tr.inner = "resolved"
                     /\ tr.value.function_call # Undefined
                     /\ options.onFunctionCall
          IN /\ Len(tr.handlerCalls) <= 1
             /\ tr.handlerCalls # <<>> => due
             /\ (due /\ tr.outer # "pending") => Len(tr.handlerCalls) = 1
             /\ \A i \in 1..Len(tr.handlerCalls) :
                  /\ tr.handlerCalls[i].messages = tr.messages
                  /\ tr.handlerCalls[i].function_call = tr.value.function_call
                  /\ tr.handlerCalls[i].function_call \in FunctionCalls
                  /\ \A k \in 1..Len(tr.handlerCalls[i].messages) :
                       tr.handlerCalls[i].messages[k].id # tr.assistantMessage.id)
  /\ [][\A t \in Turns :
          turns'[t].handlerCalls # turns[t].handlerCalls => ~InFlight(t)]_vars

C11_Witness ==
  \E t \in Turns :
    /\ Len(turns[t].handlerCalls) = 1
    /\ turns[t].messages # <<>>
    /\ turns[t].outer # "pending"

\* C12: every request carries the configured system messages in their
\* configured order, then the history of the turn in its order; no system
\* message follows a conversational message, and no system message is in the
\* hook's message list.
C12_SystemMessagesFirst ==
  /\ \A t \in Turns :
       LET req == turns[t].request.messages
           n == Len(options.systemMessages)
       IN /\ Len(req) = n + Len(turns[t].messages)
          /\ \A i \in 1..n : req[i] = options.systemMessages[i]
          /\ \A i \in 1..Len(turns[t].messages) : req[n + i] = turns[t].messages[i]
          /\ \A i, j \in 1..Len(req) :
               (i < j /\ req[i].role # "system") => req[j].role # "system"
  /\ \A i \in 1..Len(messages) : messages[i].role # "system"

C12_Witness ==
  \E t \in Turns :
    /\ Len(options.systemMessages) = 2
    /\ Len(turns[t].messages) >= 1
    /\ Len(turns[t].request.messages) >= 3

C14_InputDecoupled ==
  [][/\ input' # input =>
          (messages' = messages /\ isLoading' = isLoading /\ turns' = turns)
     /\ ( \/ messages' # messages
          \/ isLoading' # isLoading
          \/ turns' # turns
          \/ last'.op # "none" ) => input' = input]_vars

C14_Witness ==
  /\ input = "draft"
  /\ \E t \in Turns : InFlight(t) /\ turns[t].emitted # <<>>

\* C15: a settled turn has no listener attached; it stays settled with the
\* same value or reason, and no later event of its client changes messages
\* or isLoading.
C15_SettledTurnIsFrozen ==
  /\ [](\A t \in Turns : ~InFlight(t) => turns[t].listeners = {})
  /\ [][\A t \in Turns :
          ~InFlight(t) =>
            /\ turns'[t].inner = turns[t].inner
            /\ turns'[t].value = turns[t].value
            /\ turns'[t].reason = turns[t].reason
            /\ turns'[t].assistantMessage = turns[t].assistantMessage
            /\ turns'[t].emitted # turns[t].emitted =>
                 (messages' = messages /\ isLoading' = isLoading)]_vars

C15_Witness ==
  \E t \in Turns :
    /\ turns[t].inner = "resolved"
    /\ Len(turns[t].emitted) >= 2
    /\ turns[t].emitted[1].type = "function"
    /\ Last(turns[t].emitted).type = "end"

\* s is a prefix of r
IsPrefix(s, r) == Len(s) <= Len(r) /\ SubSeq(r, 1, Len(s)) = s

\* C17: whenever a turn publishes (at its start, on a content event, on a
\* function event) the list is the turn's snapshot followed by its one
\* pending assistant message; the snapshot never changes; the content
\* starts empty and each content event appends its delta to it.
C17_PublishedLists ==
  [][/\ Len(turns') > Len(turns) =>
          LET n == Len(turns') IN
          /\ turns'[n].assistantMessage.content = <<>>
          /\ turns'[n].messages = rendered.messages
          /\ messages' = turns'[n].messages \o <<turns'[n].assistantMessage>>
     /\ \A t \in Turns :
          /\ turns'[t].messages = turns[t].messages
          /\ turns'[t].assistantMessage.id = turns[t].assistantMessage.id
          /\ IsPrefix(turns[t].assistantMessage.content,
                      turns'[t].assistantMessage.content)
          /\ \A d \in Deltas :
               (InFlight(t) /\ Emits(t, Event("content", d, Undefined, NoError))) =>
                 /\ turns'[t].assistantMessage.content =
                      turns[t].assistantMessage.content \o d
                 /\ messages' = turns[t].messages \o <<turns'[t].assistantMessage>>
          /\ \A f \in FunctionCalls :
               (InFlight(t) /\ Emits(t, Event("function", <<>>, f, NoError))) =>
                 /\ turns'[t].assistantMessage.content =
                      turns[t].assistantMessage.content
                 /\ messages' = turns[t].messages \o <<turns'[t].assistantMessage>>]_vars

C17_Witness ==
  \E t \in Turns :
    /\ InFlight(t)
    /\ Len(turns[t].emitted) = 2
    /\ turns[t].assistantMessage.content =
         turns[t].emitted[1].content \o turns[t].emitted[2].content
    /\ turns[t].emitted[1].content # turns[t].emitted[2].content
    /\ messages = turns[t].messages \o <<turns[t].assistantMessage>>

\* the client of turn t has emitted end, error or function
TerminalSeen(t) ==
  \E i \in 1..Len(turns[t].emitted) :
    turns[t].emitted[i].type \in {"end", "error", "function"}

\* C16: once the client of a turn has emitted end, error or function, the
\* turn is settled and isLoading was set to false by that event, and the
\* promise returned by append or reload is eventually resolved or rejected:
\* again and again no turn whose client has emitted such an event has that
\* promise still pending (settled promises stay settled).
C16_TurnSettles ==
  /\ []<>(\A t \in Turns : TerminalSeen(t) => turns[t].outer # "pending")
  /\ [](\A t \in Turns : TerminalSeen(t) => ~InFlight(t))
  /\ [][\A t \in Turns :
          /\ (~TerminalSeen(t) /\ TerminalSeen(t)') => isLoading' = FALSE
          /\ turns[t].outer # "pending" => turns'[t].outer = turns[t].outer]_vars

C16_Witness ==
  \E t \in Turns :
    /\ TerminalSeen(t)
    /\ turns[t].outer # "pending"
    /\ ~isLoading

\* the content events due for a provider stream: one per chunk whose content
\* is a non-empty string, in chunk order
RECURSIVE ContentEvents(_)
ContentEvents(stream) ==
  IF stream = <<>> THEN <<>>
  ELSE (IF Head(stream).defined /\ Len(Head(stream).text) > 0
          THEN << StreamEvent("TextMessageContent", Head(stream).text) >>
          ELSE << >>)
       \o ContentEvents(Tail(stream))

\* C18: when the provider stream has completed without failing, the event
\* stream is one TextMessageStart, one TextMessageContent per chunk with
\* non-empty content in chunk order, one TextMessageEnd, then complete; no
\* function event is ever sent and nothing is sent after complete.
C18_AdapterEventOrder ==
  /\ [](adapter.pc = "done" =>
          adapter.events =
            << StreamEvent("TextMessageStart", <<>>) >>
              \o ContentEvents(adapter.stream)
              \o << StreamEvent("TextMessageEnd", <<>>), StreamEvent("complete", <<>>) >>)
  /\ [](\A i \in 1..Len(adapter.events) :
          adapter.events[i].type \in {"TextMessageStart", "TextMessageContent",
                                      "TextMessageEnd", "complete"})
  /\ [][(\E i \in 1..Len(adapter.events) : adapter.events[i].type = "complete")
          => adapter.events' = adapter.events]_vars

C18_Witness ==
  /\ adapter.pc = "done"
  /\ Len(adapter.stream) = 3
  /\ Len(adapter.events) = 4
  /\ adapter.stream[1] = Chunk(TRUE, <<>>)
  /\ adapter.stream[2] = Chunk(FALSE, <<>>)
====
